---- MODULE Spec2Model ----
(***************************************************************************)
(* A model of tfkaldi's batch dispenser (prepare/batch_dispenser.py) and   *)
(* of its attend and spell cell (neuralnetworks/las_elements.py).          *)
(*                                                                         *)
(* Seven specifications share the module:                                  *)
(*   Spec       a constructed UttTextDispenser and its reader cursor, with *)
(*              get_batch / skip_batch / return_batch as actions;          *)
(*   CursorSpec the same dispenser with a record of the last operation;    *)
(*   NormSpec   the character target encoder: normalize_targets, encode   *)
(*              and decode applied to a word list drawn in Init;           *)
(*   ConvSpec   the static conversions dense_to_sparse, sparse_to_dense    *)
(*              and target_list_to_sparse_tensor applied to an argument    *)
(*              drawn in Init;                                             *)
(*   PhonSpec   the construction of a PhonemeTextDispenser and its encode; *)
(*   CellSpec   an AttendAndSpellCell under set_features, zero_state and   *)
(*              decoding steps;                                            *)
(*   StateSpec  a StateTouple, constructed and asked for its dtype.        *)
(* numpy arrays are records [shape, data]; a Python exception is a record *)
(* [kind |-> "error", error |-> <name>].                                   *)
(***************************************************************************)
EXTENDS Integers, Sequences, FiniteSets, TLC

VARIABLES
    \* BatchDispenser fields (batch_dispenser.py:49-67) and the reader cursor
    size, max_time, one_hot_encoding, num_labels, text_dict, scp_position,
    \* what the last get_batch call returned or raised, and the cursor it started from
    result, call_pos,
    \* the character encoder pipeline
    norm_input, npc, norm_lst, encoded, decoded,
    \* the static conversions
    conv_arg, conv_pc, sparse, dense,
    \* the phoneme dispenser: the lines of its transcript file, the declared
    \* label count, its phone_map, and the last encode call
    ph_text_lines, ph_num_labels, ph_pc, phone_map, ph_arg, ph_result,
    \* AttendAndSpellCell fields (las_elements.py:145-180), the reuse flags of
    \* its sub-networks, and how ties are broken by the argmax kernel
    high_lvl_features, high_lvl_feature_dim, psi, nets, argmax_tie,
    \* the state tuple of the unrolling, the last operation and its outcome,
    \* the tensors of the last step, the steps since zero_state, and the runs
    \* of featr_net in the last operation
    state, cell_op, cell_result, trace, step_no, featr_runs,
    \* a state tuple under construction: its four elements, what the
    \* constructor returned and what reading its dtype returned
    st_elements, st_pc, st_made, st_dtype,
    \* the last operation on the dispenser and the cursor it started from
    last_op, op_pos

dispVars == <<size, max_time, one_hot_encoding, num_labels, text_dict,
              scp_position, result, call_pos>>
normVars == <<norm_input, npc, norm_lst, encoded, decoded>>
convVars == <<conv_arg, conv_pc, sparse, dense>>
phonVars == <<ph_text_lines, ph_num_labels, ph_pc, phone_map, ph_arg, ph_result>>
cellVars == <<high_lvl_features, high_lvl_feature_dim, psi, nets, argmax_tie,
              state, cell_op, cell_result, trace, step_no, featr_runs>>
stateVars == <<st_elements, st_pc, st_made, st_dtype>>
cursorVars == <<last_op, op_pos>>
vars == <<dispVars, normVars, convVars, phonVars, cellVars, stateVars,
         cursorVars>>

---------------------------------------------------------------------------
(* Bounds of the model *)

\* longest word list handed to normalize_targets
MaxWords == 3
\* largest dense matrix handed to dense_to_sparse
MaxRows == 2
MaxCols == 2
\* target lists handed to target_list_to_sparse_tensor
MaxSeqs == 2
MaxSeqLen == 2
\* batch sizes, fixed caps on the time axis, feature width of the reader's data
MaxSize == 2
MaxTime == 3
NumFeatures == 2
\* lines of a phoneme transcript file, phonemes on a line
MaxLines == 2
MaxPhones == 2
\* steps of one unrolling of the cell
MaxUnroll == 2
\* LSTM layers behind an RNNStateList
MaxLayers == 2

---------------------------------------------------------------------------
(* Generic helpers *)

Range(s) == {s[i] : i \in DOMAIN s}

SeqsUpTo(S, n) == UNION {[1..k -> S] : k \in 0..n}

Max2(a, b) == IF a >= b THEN a ELSE b

RECURSIVE MaxOver(_, _)
\* Python: m = start; for x in s: m = max(m, x)
MaxOver(start, s) ==
    IF s = <<>> THEN start ELSE MaxOver(Max2(start, Head(s)), Tail(s))

RECURSIVE Flatten(_)
Flatten(ss) == IF ss = <<>> THEN <<>> ELSE Head(ss) \o Flatten(Tail(ss))

Err(name) == [kind |-> "error", error |-> name]

Ok(v) == [kind |-> "ok", val |-> v]

---------------------------------------------------------------------------
(* Characters.  A character is a one-character string, a word a sequence   *)
(* of characters.                                                          *)

Letters == <<"a","b","c","d","e","f","g","h","i","j","k","l","m",
             "n","o","p","q","r","s","t","u","v","w","x","y","z">>

Upper == <<"A","B","C","D","E","F","G","H","I","J","K","L","M",
           "N","O","P","Q","R","S","T","U","V","W","X","Y","Z">>

\* ord() and chr() on the lower-case letters: ord("a") = 97
ord(c) == 96 + (CHOOSE i \in DOMAIN Letters : Letters[i] = c)

chr(n) == Letters[n - 96]

\* str.lower() on one character
lower(c) ==
    IF \E i \in DOMAIN Upper : Upper[i] = c
    THEN Letters[CHOOSE i \in DOMAIN Upper : Upper[i] = c]
    ELSE c

\* Python's range(a, b) as a sequence: a, a+1, ..., b-1
PyRange(a, b) == [i \in 1..(IF b > a THEN b - a ELSE 0) |-> a + i - 1]

\* UttTextDispenser.__init__: the list of allowed characters
allowed_chrs ==
    LET counts == PyRange(ord("a"), ord("z"))
    IN  <<">", "<", " ", ",", ".", "'", "?">>
        \o [k \in DOMAIN counts |-> chr(counts[k])]

\* UttTextDispenser.__init__: code_dict, enumerate(allowed_chrs) from 0,
\* a later entry of the same character overwriting an earlier one
code_dict ==
    [c \in Range(allowed_chrs) |->
        (CHOOSE i \in DOMAIN allowed_chrs :
            /\ allowed_chrs[i] = c
            /\ \A j \in DOMAIN allowed_chrs : allowed_chrs[j] = c => j <= i) - 1]

\* UttTextDispenser.__init__: target_label_no
target_label_no == Len(allowed_chrs)

COMMA == <<",","C","O","M","M","A">>

PERIOD == <<".","P","E","R","I","O","D">>

RECURSIVE JoinWords(_)
\* normalize_targets, the loop over the words: a marker word becomes its
\* punctuation, any other word is followed by a space
JoinWords(ws) ==
    IF ws = <<>> THEN <<>>
    ELSE LET word == Head(ws)
         IN  (IF word = COMMA THEN << <<",">> >>
              ELSE IF word = PERIOD THEN << <<".">> >>
              ELSE <<word, <<" ">> >>) \o JoinWords(Tail(ws))

\* normalize_targets, first half: tmp_lst with its last entry overwritten
tmp_lst(ws) ==
    LET lst == << <<"<">> >> \o JoinWords(ws)
    IN  [lst EXCEPT ![Len(lst)] = <<">">>]

\* a mutant of NormChar: unknown characters are kept
NormCharKeep(any_chr) == lower(any_chr)

\* normalize_targets, the check of one character for unknowns
NormChar(any_chr) ==
    LET lower_c == lower(any_chr)
    IN  IF lower_c \notin Range(allowed_chrs) THEN "?" ELSE lower_c

\* UttTextDispenser.normalize_targets
normalize_targets(ws) ==
    LET chars == Flatten(tmp_lst(ws))
    IN  [i \in DOMAIN chars |-> NormChar(chars[i])]

\* UttTextDispenser.encode: a KeyError for a character outside code_dict,
\* the codes stored as uint8
encode(char_lst) ==
    IF \E i \in DOMAIN char_lst : char_lst[i] \notin DOMAIN code_dict
    THEN Err("KeyError")
    ELSE Ok([i \in DOMAIN char_lst |-> code_dict[char_lst[i]] % 256])

\* decode's reverse_dict: {code: char for char, code in code_dict.items()}
reverse_dict ==
    [code \in {code_dict[c] : c \in DOMAIN code_dict} |->
        CHOOSE c \in DOMAIN code_dict : code_dict[c] = code]

\* UttTextDispenser.decode
decode(codes) ==
    IF \E i \in DOMAIN codes : codes[i] \notin DOMAIN reverse_dict
    THEN Err("KeyError")
    ELSE Ok([i \in DOMAIN codes |-> reverse_dict[codes[i]]])

---------------------------------------------------------------------------
(* NormSpec: the character encoder applied to a drawn word list *)

\* the words the transcripts are made of: plain words, the two marker
\* words, a word with the last letter of the alphabet, a word with
\* characters outside the allowed set
Words == { <<"T","H","E">>, <<"C","A","T">>, COMMA, PERIOD,
           <<"Z","o","O">>, <<"4","-">> }

WordLists == SeqsUpTo(Words, MaxWords)

NormIdle ==
    /\ norm_input = <<>>
    /\ npc = "idle"
    /\ norm_lst = <<>>
    /\ encoded = Err("unset")
    /\ decoded = Err("unset")

NormInit ==
    /\ norm_input \in WordLists
    /\ npc = "start"
    /\ norm_lst = <<>>
    /\ encoded = Err("unset")
    /\ decoded = Err("unset")

NormalizeTargets ==
    /\ npc = "start"
    /\ norm_lst' = normalize_targets(norm_input)
    /\ npc' = "normalized"
    /\ UNCHANGED <<norm_input, encoded, decoded>>

Encode ==
    /\ npc = "normalized"
    /\ encoded' = encode(norm_lst)
    /\ npc' = "encoded"
    /\ UNCHANGED <<norm_input, norm_lst, decoded>>

Decode ==
    /\ npc = "encoded"
    /\ encoded.kind = "ok"
    /\ decoded' = decode(encoded.val)
    /\ npc' = "decoded"
    /\ UNCHANGED <<norm_input, norm_lst, encoded>>

---------------------------------------------------------------------------
(* The static conversions.  A 2-d array is [shape |-> <<rows, cols>>,      *)
(* data |-> rows of columns]; sparse indices are 0-based as in the code.   *)

RECURSIVE DenseScan(_, _)
\* dense_to_sparse, the two nested loops, from linear position k on:
\* row = k div cols, col = k mod cols
DenseScan(dense_matrix, k) ==
    IF k >= dense_matrix.shape[1] * dense_matrix.shape[2] THEN <<>>
    ELSE LET row == k \div dense_matrix.shape[2]
             col == k % dense_matrix.shape[2]
             v   == dense_matrix.data[row + 1][col + 1]
         IN  (IF v # 0 THEN << [index |-> <<row, col>>, value |-> v] >>
              ELSE <<>>) \o DenseScan(dense_matrix, k + 1)

\* a mutant of dense_to_sparse: the index pair is written column first
dense_to_sparseSwapped(dense_matrix) ==
    LET entries == DenseScan(dense_matrix, 0)
    IN  [indices |-> [i \in DOMAIN entries |->
                         <<entries[i].index[2], entries[i].index[1]>>],
         values  |-> [i \in DOMAIN entries |-> entries[i].value],
         shape   |-> dense_matrix.shape]

\* BatchDispenser.dense_to_sparse
dense_to_sparse(dense_matrix) ==
    LET entries == DenseScan(dense_matrix, 0)
    IN  [indices |-> [i \in DOMAIN entries |-> entries[i].index],
         values  |-> [i \in DOMAIN entries |-> entries[i].value],
         shape   |-> dense_matrix.shape]

\* numpy's reading of an index along an axis of length dim: a negative
\* index counts from the end
AxisPos(idx, dim) == IF idx < 0 THEN idx + dim ELSE idx

AxisOk(idx, dim) == idx >= 0 - dim /\ idx < dim

\* BatchDispenser.sparse_to_dense: zeros(shape), then one assignment per
\* index in order (the last write to a position stays)
sparse_to_dense(indices, values, shape) ==
    IF \E i \in DOMAIN indices :
          \/ i \notin DOMAIN values
          \/ ~AxisOk(indices[i][1], shape[1])
          \/ ~AxisOk(indices[i][2], shape[2])
    THEN Err("IndexError")
    ELSE LET hits(r, c) == {i \in DOMAIN indices :
                               /\ AxisPos(indices[i][1], shape[1]) = r - 1
                               /\ AxisPos(indices[i][2], shape[2]) = c - 1}
             last(S) == CHOOSE i \in S : \A j \in S : j <= i
         IN  Ok([shape |-> shape,
                 data  |-> [r \in 1..shape[1] |-> [c \in 1..shape[2] |->
                              IF hits(r, c) = {} THEN 0
                              ELSE values[last(hits(r, c))]]]])

\* target_list_to_sparse_tensor, the inner loop over one target
RowEntries(t_i, target) ==
    LET F[k \in 0..Len(target)] ==
            IF k = 0 THEN <<>>
            ELSE F[k - 1] \o
                 (IF target[k] # 0
                  THEN << [index |-> <<t_i, k - 1>>, value |-> target[k]] >>
                  ELSE <<>>)
    IN  F[Len(target)]

\* target_list_to_sparse_tensor: lengths gets len(target) once per element
TargetLengths(targets) ==
    Flatten([t \in DOMAIN targets |->
                [k \in DOMAIN targets[t] |-> Len(targets[t])]])

\* np.max of a list: a ValueError on the empty list
np_max(lst) ==
    IF lst = <<>> THEN Err("ValueError") ELSE Ok(MaxOver(lst[1], lst))

\* BatchDispenser.target_list_to_sparse_tensor
target_list_to_sparse_tensor(targets) ==
    LET entries == Flatten([t \in DOMAIN targets |->
                               RowEntries(t - 1, targets[t])])
        longest == np_max(TargetLengths(targets))
    IN  IF longest.kind = "error" THEN Err(longest.error)
        ELSE Ok([indices |-> [i \in DOMAIN entries |-> entries[i].index],
                 values  |-> [i \in DOMAIN entries |-> entries[i].value],
                 shape   |-> <<Len(targets), longest.val>>])

---------------------------------------------------------------------------
(* ConvSpec: the conversions applied to a drawn argument *)

DenseValues == {0, 1, 7}

Matrices ==
    UNION {UNION {{[shape |-> <<r, c>>, data |-> d] :
                      d \in [1..r -> [1..c -> DenseValues]]} :
                  c \in 0..MaxCols} : r \in 0..MaxRows}

TargetCodes == {0, 3, 5}

\* all short target lists, and the list [[0,3,0,5]]
TargetLists ==
    SeqsUpTo(SeqsUpTo(TargetCodes, MaxSeqLen), MaxSeqs)
        \cup { << <<0, 3, 0, 5>> >> }

ConvIdle ==
    /\ conv_arg = [kind |-> "none"]
    /\ conv_pc = "idle"
    /\ sparse = Err("unset")
    /\ dense = Err("unset")

ConvInit ==
    /\ conv_arg \in {[kind |-> "matrix", dense_matrix |-> m] : m \in Matrices}
                    \cup {[kind |-> "targets", target_list |-> l] : l \in TargetLists}
    /\ conv_pc = "start"
    /\ sparse = Err("unset")
    /\ dense = Err("unset")

DenseToSparse ==
    /\ conv_pc = "start"
    /\ conv_arg.kind = "matrix"
    /\ sparse' = Ok(dense_to_sparse(conv_arg.dense_matrix))
    /\ conv_pc' = "sparse"
    /\ UNCHANGED <<conv_arg, dense>>

SparseToDense ==
    /\ conv_pc = "sparse"
    /\ dense' = sparse_to_dense(sparse.val.indices, sparse.val.values,
                                sparse.val.shape)
    /\ conv_pc' = "dense"
    /\ UNCHANGED <<conv_arg, sparse>>

TargetListToSparseTensor ==
    /\ conv_pc = "start"
    /\ conv_arg.kind = "targets"
    /\ sparse' = target_list_to_sparse_tensor(conv_arg.target_list)
    /\ conv_pc' = "sparse_targets"
    /\ UNCHANGED <<conv_arg, dense>>

---------------------------------------------------------------------------
(* The feature reader: the utterances of the archive in order, and a       *)
(* cursor that loops back to the first utterance after the last one.       *)

\* the number of frames of each utterance of the archive
UttLens == <<2, 0, 3, 1>>

utt_ids == <<"u1", "u2", "u3", "u4">>

NumUtts == Len(utt_ids)

\* feature f of frame t of utterance u (1-based), never zero
Frame(u, t, f) == 100 * u + 10 * t + f

\* the [time x features] matrix of utterance u
UttMat(u) ==
    [shape |-> <<UttLens[u], NumFeatures>>,
     data  |-> [t \in 1..UttLens[u] |->
                   [f \in 1..NumFeatures |-> Frame(u, t, f)]]]

\* feature_reader.get_utt(): the utterance under the cursor, cursor moved on
get_utt(pos) ==
    [utt_id |-> utt_ids[pos + 1], utt_mat |-> UttMat(pos + 1),
     pos |-> (pos + 1) % NumUtts]

\* feature_reader.nextId() / prevId(): the cursor moved by one, looping
nextId(pos) == (pos + 1) % NumUtts

prevId(pos) == (pos + NumUtts - 1) % NumUtts

---------------------------------------------------------------------------
(* BatchDispenser *)

\* ndarray.transpose() of a 2-d array
Transpose(mat) ==
    [shape |-> <<mat.shape[2], mat.shape[1]>>,
     data  |-> [i \in 1..mat.shape[2] |->
                   [j \in 1..mat.shape[1] |-> mat.data[j][i]]]]

\* a mutant of PadTime: the zero rows are put before the frames
PadTimeFront(mat, pad_secs) ==
    IF pad_secs < 0 THEN Err("ValueError")
    ELSE Ok([shape |-> <<mat.shape[1] + pad_secs, mat.shape[2]>>,
             data  |-> [t \in 1..(mat.shape[1] + pad_secs) |->
                          IF t > pad_secs THEN mat.data[t - pad_secs]
                          ELSE [f \in 1..mat.shape[2] |-> 0]]])

\* np.pad(mat, ((0, pad_secs), (0, 0)), "constant", constant_values=0):
\* pad_secs zero rows after the last row, a ValueError when negative
PadTime(mat, pad_secs) ==
    IF pad_secs < 0 THEN Err("ValueError")
    ELSE Ok([shape |-> <<mat.shape[1] + pad_secs, mat.shape[2]>>,
             data  |-> [t \in 1..(mat.shape[1] + pad_secs) |->
                          IF t <= mat.shape[1] THEN mat.data[t]
                          ELSE [f \in 1..mat.shape[2] |-> 0]]])

\* a mutant of batch_ixs: the utterances are mixed (here: reversed)
batch_ixsMixed(n) == [i \in 1..n |-> n - i]

\* batch_ixs = np.asarray(range(len(input_list))): 0-based, not mixed
batch_ixs(n) == [i \in 1..n |-> i - 1]

\* batch_ixs[start:end] with start, end = (0, self.size)
BatchSlice(n) == SubSeq(batch_ixs(n), 1, IF size < n THEN size ELSE n)

\* a mutant of target_list_to_one_hot: the label axis is written one
\* position too low (the code taken as 1-based)
target_list_to_one_hotShifted(targets) ==
    LET max_length == MaxOver(0, [b \in DOMAIN targets |-> Len(targets[b])])
    IN  Ok([shape |-> <<max_length, size, num_labels>>,
            data  |-> [t \in 1..max_length |-> [b \in 1..size |->
                         [l \in 1..num_labels |->
                            IF /\ b \in DOMAIN targets
                               /\ t \in DOMAIN targets[b]
                               /\ targets[b][t] = l
                            THEN 1 ELSE 0]]]])

\* BatchDispenser.target_list_to_one_hot: zeros([max_length, size,
\* num_labels]) with a 1.0 at [time_pos, batch_i, char_code]; an
\* IndexError when batch_i or char_code (an unsigned code) is off its axis
target_list_to_one_hot(targets) ==
    LET max_length == MaxOver(0, [b \in DOMAIN targets |-> Len(targets[b])])
    IN  IF \E b \in DOMAIN targets : \E t \in DOMAIN targets[b] :
              b > size \/ targets[b][t] >= num_labels
        THEN Err("IndexError")
        ELSE Ok([shape |-> <<max_length, size, num_labels>>,
                 data  |-> [t \in 1..max_length |-> [b \in 1..size |->
                              [l \in 1..num_labels |->
                                 IF /\ b \in DOMAIN targets
                                    /\ t \in DOMAIN targets[b]
                                    /\ targets[b][t] = l - 1
                                 THEN 1 ELSE 0]]]])

\* data_lists_to_batch: max_steps, the cap when set, else the longest input
MaxSteps(input_list) ==
    IF max_time = <<>>
    THEN MaxOver(0, [i \in DOMAIN input_list |-> input_list[i].shape[2]])
    ELSE max_time[1]

\* BatchDispenser.data_lists_to_batch.  input_list holds
\* [features x time] arrays; max_time is <<>> for None, <<cap>> otherwise.
data_lists_to_batch(input_list, targets) ==
    IF Len(input_list) # Len(targets) THEN Err("AssertionError")
    ELSE IF input_list = <<>> THEN Err("IndexError")
    ELSE
    LET n_features == input_list[1].shape[1]
        max_steps  == MaxSteps(input_list)
        ixs        == BatchSlice(Len(input_list))
        batch_seq_lengths ==
            [b \in 1..size |->
                IF b \in DOMAIN ixs THEN input_list[ixs[b] + 1].shape[2]
                ELSE 0]
        padded(b) == PadTime(Transpose(input_list[ixs[b] + 1]),
                             max_steps - input_list[ixs[b] + 1].shape[2])
        \* the assignment into batch_inputs[:, batch_i, :] broadcasts a
        \* single feature column and rejects any other width
        fits(b) == input_list[ixs[b] + 1].shape[1] \in {n_features, 1}
        batch_target_list == [b \in DOMAIN ixs |-> targets[ixs[b] + 1]]
        target_data ==
            IF one_hot_encoding THEN target_list_to_one_hot(targets)
            ELSE target_list_to_sparse_tensor(batch_target_list)
    IN  IF \E b \in DOMAIN ixs : padded(b).kind = "error" \/ ~fits(b)
        THEN Err("ValueError")
        ELSE IF target_data.kind = "error" THEN Err(target_data.error)
        ELSE Ok([inputs |->
                   [shape |-> <<max_steps, size, n_features>>,
                    data  |-> [t \in 1..max_steps |-> [b \in 1..size |->
                                 [f \in 1..n_features |->
                                    IF b \in DOMAIN ixs
                                    THEN LET row == padded(b).val.data[t]
                                         IN  IF Len(row) = 1 THEN row[1]
                                             ELSE row[f]
                                    ELSE 0]]]],
                 targets |-> target_data.val,
                 seq_lengths |-> batch_seq_lengths])

RECURSIVE ReadLoop(_, _, _, _)
\* get_batch, the while loop: read an utterance, look its transcription
\* up (a KeyError when it has none), encode it, append both
ReadLoop(pos, elmnt_cnt, input_list, targets) ==
    IF elmnt_cnt >= size
    THEN [kind |-> "ok", pos |-> pos, input_list |-> input_list,
          targets |-> targets]
    ELSE LET utt == get_utt(pos)
         IN  IF utt.utt_id \notin DOMAIN text_dict
             THEN [kind |-> "error", error |-> "KeyError", pos |-> utt.pos]
             ELSE LET encoded_target == encode(text_dict[utt.utt_id])
                  IN  IF encoded_target.kind = "error"
                      THEN [kind |-> "error", error |-> encoded_target.error,
                            pos |-> utt.pos]
                      ELSE ReadLoop(utt.pos, elmnt_cnt + 1,
                               Append(input_list, Transpose(utt.utt_mat)),
                               Append(targets, encoded_target.val))

RECURSIVE SkipLoopInclusive(_, _)
\* skip_batch with a loop that runs once more
SkipLoopInclusive(pos, elmnt_cnt) ==
    IF elmnt_cnt > size THEN pos
    ELSE SkipLoopInclusive(nextId(pos), elmnt_cnt + 1)

RECURSIVE SkipLoop(_, _)
\* skip_batch, the while loop: nextId() until elmnt_cnt reaches size
SkipLoop(pos, elmnt_cnt) ==
    IF elmnt_cnt >= size THEN pos ELSE SkipLoop(nextId(pos), elmnt_cnt + 1)

RECURSIVE ReturnLoop(_, _)
\* return_batch, the while loop: prevId() until elmnt_cnt reaches size
ReturnLoop(pos, elmnt_cnt) ==
    IF elmnt_cnt >= size THEN pos ELSE ReturnLoop(prevId(pos), elmnt_cnt + 1)

---------------------------------------------------------------------------
(* Spec: a constructed character dispenser *)

\* the lines of a transcript file, split at the spaces: id, then words
TextFull ==
    << <<"u1", <<"T","H","E">>, <<"C","A","T">> >>,
       <<"u2">>,
       <<"u3", <<"C","A","T">>, COMMA>>,
       <<"u4", <<"Z","o","O">> >> >>

\* the same file without the line of u3
TextMissing == SelectSeq(TextFull, LAMBDA line : line[1] # "u3")

TextFiles == {TextFull, TextMissing}

\* BatchDispenser.__init__: text_dict, id -> normalized transcription, a
\* later line of an id replacing an earlier one
BuildTextDict(text_lines) ==
    [id \in {text_lines[i][1] : i \in DOMAIN text_lines} |->
        LET i == CHOOSE i \in DOMAIN text_lines :
                    /\ text_lines[i][1] = id
                    /\ \A j \in DOMAIN text_lines :
                          text_lines[j][1] = id => j <= i
        IN  normalize_targets(Tail(text_lines[i]))]

\* the label counts a caller declares: the size of the code map, or too few
NumLabelsChoices == {target_label_no, 3}

DispIdle ==
    /\ size = 0
    /\ max_time = <<>>
    /\ one_hot_encoding = TRUE
    /\ num_labels = 0
    /\ text_dict = <<>>
    /\ scp_position = 0
    /\ result = [kind |-> "none"]
    /\ call_pos = 0

DispInit ==
    /\ size \in 1..MaxSize
    /\ max_time \in {<<>>} \cup {<<cap>> : cap \in 1..MaxTime}
    /\ one_hot_encoding \in BOOLEAN
    /\ num_labels \in NumLabelsChoices
    /\ text_dict \in {BuildTextDict(lines) : lines \in TextFiles}
    /\ scp_position = 0
    /\ result = [kind |-> "none"]
    /\ call_pos = 0

\* BatchDispenser.get_batch
GetBatch ==
    LET read == ReadLoop(scp_position, 0, <<>>, <<>>)
    IN  /\ call_pos' = scp_position
        /\ scp_position' = read.pos
        /\ result' = IF read.kind = "error" THEN Err(read.error)
                     ELSE data_lists_to_batch(read.input_list, read.targets)
        /\ UNCHANGED <<size, max_time, one_hot_encoding, num_labels, text_dict>>

\* BatchDispenser.skip_batch
SkipBatch ==
    /\ scp_position' = SkipLoop(scp_position, 0)
    /\ UNCHANGED <<size, max_time, one_hot_encoding, num_labels, text_dict,
                   result, call_pos>>

\* BatchDispenser.return_batch
ReturnBatch ==
    /\ scp_position' = ReturnLoop(scp_position, 0)
    /\ UNCHANGED <<size, max_time, one_hot_encoding, num_labels, text_dict,
                   result, call_pos>>

---------------------------------------------------------------------------
(* PhonSpec: the phoneme dispenser, its vocabulary and its encoder *)

\* the phonemes of the transcripts, in the order Python sorts the strings
PhoneOrder == <<"aa", "b", "sil">>

Phones == Range(PhoneOrder)

PhoneRank(p) == CHOOSE i \in DOMAIN PhoneOrder : PhoneOrder[i] = p

RECURSIVE VocabKeys(_, _)
\* the keys of vocab_dict in insertion order: every wrd of tmp[1:] of every
\* line, added when it is not yet a key
VocabKeys(wrds, keys) ==
    IF wrds = <<>> THEN keys
    ELSE IF Head(wrds) \in Range(keys) THEN VocabKeys(Tail(wrds), keys)
    ELSE VocabKeys(Tail(wrds), Append(keys, Head(wrds)))

vocab_dict(text_lines) ==
    VocabKeys(Flatten([i \in DOMAIN text_lines |-> Tail(text_lines[i])]), <<>>)

RECURSIVE InsertPhone(_, _)
InsertPhone(p, sorted) ==
    IF sorted = <<>> THEN <<p>>
    ELSE IF PhoneRank(p) <= PhoneRank(Head(sorted)) THEN <<p>> \o sorted
    ELSE <<Head(sorted)>> \o InsertPhone(p, Tail(sorted))

RECURSIVE SortPhones(_)
\* phones.sort()
SortPhones(phones) ==
    IF phones = <<>> THEN <<>>
    ELSE InsertPhone(Head(phones), SortPhones(Tail(phones)))

\* the list the codes are enumerated over, were it left in insertion order
phonesUnsorted(text_lines) == vocab_dict(text_lines)

\* phones = list(vocab_dict.keys()); phones.sort()
phones(text_lines) == SortPhones(vocab_dict(text_lines))

\* for no, phoneme in enumerate(phones): phone_map.update({phoneme: no})
EnumeratePhones(phone_lst) ==
    [p \in Range(phone_lst) |->
        (CHOOSE no \in DOMAIN phone_lst : phone_lst[no] = p) - 1]

\* PhonemeTextDispenser.__init__ after the base constructor: the phone map,
\* or the AssertionError of the label count check
PhonemeInit(text_lines, declared) ==
    LET map == EnumeratePhones(phones(text_lines))
    IN  IF declared = Cardinality(DOMAIN map)
        THEN [kind |-> "ok", map |-> map]
        ELSE Err("AssertionError")

\* PhonemeTextDispenser.encode: np.array(targets, dtype=np.uint8)
phone_encode(map, phone_lst) ==
    IF \E i \in DOMAIN phone_lst : phone_lst[i] \notin DOMAIN map
    THEN Err("KeyError")
    ELSE Ok([i \in DOMAIN phone_lst |-> map[phone_lst[i]] % 256])

\* transcript files of the phoneme corpus: a line is an utterance id
\* followed by its phonemes
PhoneLines == {<<"utt">> \o ps : ps \in SeqsUpTo(Phones, MaxPhones)}

PhoneFiles == SeqsUpTo(PhoneLines, MaxLines)

\* the label counts a caller declares
NumLabelsDeclared == {2, 3}

NoPhoneMap == [p \in {} |-> 0]

PhonIdle ==
    /\ ph_text_lines = <<>>
    /\ ph_num_labels = 0
    /\ ph_pc = "idle"
    /\ phone_map = NoPhoneMap
    /\ ph_arg = <<>>
    /\ ph_result = Err("unset")

PhonInit ==
    /\ ph_text_lines \in PhoneFiles
    /\ ph_num_labels \in NumLabelsDeclared
    /\ ph_pc = "new"
    /\ phone_map = NoPhoneMap
    /\ ph_arg = <<>>
    /\ ph_result = Err("unset")

\* PhonemeTextDispenser(...)
PhonConstruct ==
    /\ ph_pc = "new"
    /\ LET made == PhonemeInit(ph_text_lines, ph_num_labels)
       IN  IF made.kind = "ok"
           THEN /\ ph_pc' = "built"
                /\ phone_map' = made.map
                /\ ph_result' = Err("unset")
           ELSE /\ ph_pc' = "failed"
                /\ phone_map' = NoPhoneMap
                /\ ph_result' = made
    /\ UNCHANGED <<ph_text_lines, ph_num_labels, ph_arg>>

\* dispenser.encode(phone_lst), of a transcript of the file or of one phoneme
PhonEncode ==
    /\ ph_pc \in {"built", "encoded"}
    /\ \E phone_lst \in {Tail(ph_text_lines[i]) : i \in DOMAIN ph_text_lines}
                         \cup {<<p>> : p \in Phones} :
          /\ ph_arg' = phone_lst
          /\ ph_result' = phone_encode(phone_map, phone_lst)
    /\ ph_pc' = "encoded"
    /\ UNCHANGED <<ph_text_lines, ph_num_labels, phone_map>>

---------------------------------------------------------------------------
(* CellSpec: the attend and spell cell (neuralnetworks/las_elements.py).    *)
(* A tensor is a function of its 1-based indices.  The trained             *)
(* sub-networks are opaque: what a call of one returns is drawn from a     *)
(* small set.  Real numbers are exact: the softmax weights and the context *)
(* vector are fractions [num, den] with a common denominator per batch     *)
(* element, and Exp stands for the exponential function.                   *)

\* las_model.batch_size, las_model.target_label_no, the time steps of the
\* listener's output
las_batch_size == 2
las_target_label_no == 3
TimeSteps == 2

Batch == 1..las_batch_size

\* Python's None
None == [kind |-> "None"]

Tensor(v) == [kind |-> "tensor", tensor |-> v]

\* the five sub-networks AttendAndSpellCell.__init__ creates
Nets == {"state_net", "featr_net", "char_net", "pre_context_rnn",
         "post_context_rnn"}

\* AttendAndSpellCell.__init__: self.type_two = False
type_two == FALSE

RECURSIVE SumTo(_, _)
\* f[1] + ... + f[n]
SumTo(f, n) == IF n = 0 THEN 0 ELSE SumTo(f, n - 1) + f[n]

\* tf.one_hot(indices, depth, axis=1): row b is 1 at column indices[b]
\* (0-based) and 0 elsewhere
one_hot(indices, depth) ==
    [b \in DOMAIN indices |->
        [k \in 1..depth |-> IF k - 1 = indices[b] THEN 1 ELSE 0]]

\* the zero context of zero_state: np.zeros([batch_size, high_lvl_feature_dim])
ZeroContext(batch_size, dim) ==
    [num |-> [b \in 1..batch_size |-> [d \in 1..dim |-> 0]],
     den |-> [b \in 1..batch_size |-> 1]]

\* a zero state whose label is code 0, the end of sequence marker
zero_stateEos(batch_size, feature_dim) ==
    IF feature_dim = <<>> THEN Err("TypeError")
    ELSE [kind |-> "state",
          pre_context_states |-> <<0>>,
          post_context_states |-> <<0>>,
          one_hot_char |-> one_hot([b \in 1..batch_size |-> 0],
                                   las_target_label_no),
          context_vector |-> ZeroContext(batch_size, feature_dim[1])]

\* AttendAndSpellCell.zero_state: np.zeros raises TypeError on a None
\* dimension, that is before set_features
zero_state(batch_size, feature_dim) ==
    IF feature_dim = <<>> THEN Err("TypeError")
    ELSE [kind |-> "state",
          pre_context_states |-> <<0>>,
          post_context_states |-> <<0>>,
          one_hot_char |-> one_hot([b \in 1..batch_size |-> 1],
                                   las_target_label_no),
          context_vector |-> ZeroContext(batch_size, feature_dim[1])]

\* net_out_prob = 0.2 and the values of rand_val, in tenths
net_out_prob == 2
RandVals == {1, 2, 3}

\* select_out_or_target: tf.cond(tf.greater(rand_val, net_out_prob), ...),
\* were the condition the other way round
select_out_or_targetSwapped(groundtruth, last_char, rand) ==
    IF rand > net_out_prob THEN last_char ELSE groundtruth

\* AttendAndSpellCell.select_out_or_target
select_out_or_target(groundtruth, last_char, rand) ==
    IF rand > net_out_prob THEN groundtruth ELSE last_char

\* tf.argmax(logits, 1) of one row, 0-based; which of several maximal
\* positions it returns is a property of the kernel
argmax(logit_row, tie) ==
    LET maxima == {k \in DOMAIN logit_row :
                      \A j \in DOMAIN logit_row : logit_row[j] <= logit_row[k]}
    IN  IF tie = "first"
        THEN (CHOOSE k \in maxima : \A j \in maxima : k <= j) - 1
        ELSE (CHOOSE k \in maxima : \A j \in maxima : k >= j) - 1

\* greedy decoding that marks the position after the maximum
greedy_decodingShifted(logit_batch, tie) ==
    one_hot([b \in DOMAIN logit_batch |->
                (argmax(logit_batch[b], tie) + 1) % las_target_label_no],
            las_target_label_no)

\* AttendAndSpellCell.greedy_decoding
greedy_decoding(logit_batch, tie) ==
    one_hot([b \in DOMAIN logit_batch |-> argmax(logit_batch[b], tie)],
            las_target_label_no)

\* the exponential function, on the energies of the model
Exp(x) == 2 ^ x

\* tf.batch_matmul(psi, phi_3d), squeezed: energy[b][t] = sum_k psi*phi
scalar_energy(psi_t, phi) ==
    [b \in DOMAIN psi_t |->
        [t \in DOMAIN psi_t[b] |->
            SumTo([k \in DOMAIN phi[b] |-> psi_t[b][t][k] * phi[b][k]],
                  Len(phi[b]))]]

\* tf.nn.softmax(scalar_energy): over the last axis, the time
softmax(energy) ==
    [num |-> [b \in DOMAIN energy |->
                 [t \in DOMAIN energy[b] |-> Exp(energy[b][t])]],
     den |-> [b \in DOMAIN energy |->
                 SumTo([t \in DOMAIN energy[b] |-> Exp(energy[b][t])],
                       Len(energy[b]))]]

\* tf.batch_matmul(alpha_3d, values), squeezed: sum_t alpha[b][t]*values[b][t]
context_matmul(weights, values) ==
    [num |-> [b \in DOMAIN values |->
                 [d \in DOMAIN values[b][1] |->
                     SumTo([t \in DOMAIN values[b] |->
                               weights.num[b][t] * values[b][t][d]],
                           Len(values[b]))]],
     den |-> weights.den]

\* attention over the projected features instead of the listener's
attention_contextOverPsi(psi_t, feature_t, phi) ==
    LET weights == softmax(scalar_energy(psi_t, phi))
    IN  [alpha |-> weights, context_vector |-> context_matmul(weights, psi_t)]

\* AttendAndSpellCell.attention_context, phi being state_net(pre_context_out)
attention_context(psi_t, feature_t, phi) ==
    LET weights == softmax(scalar_energy(psi_t, phi))
    IN  [alpha |-> weights,
         context_vector |-> context_matmul(weights, feature_t)]

\* RNN.__call__ / FeedForwardNetwork.__call__, were the flag left alone
ReuseAfterCallUnset(flag) == flag

\* RNN.__call__ / FeedForwardNetwork.__call__: if self.reuse is None:
\* self.reuse = True
ReuseAfterCall(flag) == IF flag = "None" THEN "True" ELSE flag

\* one invocation of sub-network net: it runs with its reuse flag, creates
\* its parameters when the flag is unset, then updates the flag
RunNet(net_states, net) ==
    [net_states EXCEPT ![net] =
        [reuse |-> ReuseAfterCall(@.reuse),
         created |-> IF @.reuse = "None" /\ @.created < 2 THEN @.created + 1
                     ELSE @.created,
         calls |-> IF @.calls >= 2 THEN 2 ELSE @.calls + 1,
         ran_with |-> @.reuse]]

RECURSIVE RunNets(_, _)
\* the invocations of a step, in the order of the calls
RunNets(net_states, called) ==
    IF called = <<>> THEN net_states
    ELSE RunNets(RunNet(net_states, Head(called)), Tail(called))

\* set_features that stores no psi
set_features_psiDropped(non_seq_psi) == None

\* set_features: self.psi = nonseq2seq(non_seq_psi, ...)
set_features_psi(non_seq_psi) == Tensor(non_seq_psi)

\* what the listener hands to set_features: [batch, time, dim] tensors
FeatureDims == {1, 2}
FeatureSeeds == {0}
FeatTensor(seed, dim) ==
    [b \in Batch |-> [t \in 1..TimeSteps |->
        [d \in 1..dim |-> (seed + b + 2 * t + d) % 4]]]

\* what the sub-networks return: featr_net a [batch, time, ProjDim] tensor,
\* state_net a [batch, ProjDim] tensor, the LSTM stack an output that is
\* also its new state, char_net a [batch, target_label_no] tensor
ProjDim == 1
PsiTensors ==
    {[b \in Batch |-> [t \in 1..TimeSteps |->
        [k \in 1..ProjDim |-> (seed + b * t) % 3]]] : seed \in {0, 1}}
PhiOf(scale) == [b \in Batch |-> [k \in 1..ProjDim |-> (scale * b) % 2]]
LogitsOf(first_row, row) ==
    [b \in Batch |-> IF b = 1 THEN first_row ELSE row]
NetOutputs ==
    {[pre_context_out |-> 1, phi |-> PhiOf(0),
      logits |-> LogitsOf(<<0, 1, 0>>, <<0, 1, 0>>)],
     [pre_context_out |-> 2, phi |-> PhiOf(1),
      logits |-> LogitsOf(<<2, 2, 1>>, <<2, 2, 1>>)],
     [pre_context_out |-> 1, phi |-> PhiOf(1),
      logits |-> LogitsOf(<<1, 1, 1>>, <<0, 0, 3>>)],
     [pre_context_out |-> 2, phi |-> PhiOf(0),
      logits |-> LogitsOf(<<0, 1, 0>>, <<0, 1, 0>>)]}

\* the cell_input of a step: None, or the one-hot ground truth
CellInputs ==
    {None} \cup {Tensor(one_hot([b \in Batch |-> (b + shift) % las_target_label_no],
                                las_target_label_no)) : shift \in {1}}

\* a state tuple a caller builds by hand
CallerState ==
    [kind |-> "state",
     pre_context_states |-> <<0>>,
     post_context_states |-> <<0>>,
     one_hot_char |-> one_hot([b \in Batch |-> 1], las_target_label_no),
     context_vector |-> ZeroContext(las_batch_size, 1)]

NoTrace == [kind |-> "none"]

FreshNets ==
    [net \in Nets |-> [reuse |-> "None", created |-> 0, calls |-> 0,
                       ran_with |-> "never"]]

CellIdle ==
    /\ high_lvl_features = None
    /\ high_lvl_feature_dim = <<>>
    /\ psi = None
    /\ nets = FreshNets
    /\ argmax_tie = "idle"
    /\ state = [kind |-> "none"]
    /\ cell_op = "idle"
    /\ cell_result = [kind |-> "none"]
    /\ trace = NoTrace
    /\ step_no = 0
    /\ featr_runs = 0

\* AttendAndSpellCell.__init__
CellInit ==
    /\ high_lvl_features = None
    /\ high_lvl_feature_dim = <<>>
    /\ psi = None
    /\ nets = FreshNets
    /\ argmax_tie \in {"first", "last"}
    /\ state = [kind |-> "none"]
    /\ cell_op = "new"
    /\ cell_result = [kind |-> "none"]
    /\ trace = NoTrace
    /\ step_no = 0
    /\ featr_runs = 0

\* AttendAndSpellCell.set_features
SetFeatures ==
    /\ \E dim \in FeatureDims, seed \in FeatureSeeds, non_seq_psi \in PsiTensors :
          /\ high_lvl_feature_dim # <<>> => dim = high_lvl_feature_dim[1]
          /\ high_lvl_features' = Tensor(FeatTensor(seed, dim))
          /\ high_lvl_feature_dim' = <<dim>>
          /\ psi' = set_features_psi(non_seq_psi)
    /\ nets' = RunNet(nets, "featr_net")
    /\ featr_runs' = 1
    /\ cell_op' = "set_features"
    /\ cell_result' = [kind |-> "none"]
    /\ UNCHANGED <<argmax_tie, state, trace, step_no>>

\* AttendAndSpellCell.zero_state(las_model.batch_size, las_model.dtype)
ZeroState ==
    /\ LET zero == zero_state(las_batch_size, high_lvl_feature_dim)
       IN  IF zero.kind = "error"
           THEN /\ cell_result' = zero
                /\ UNCHANGED state
           ELSE /\ cell_result' = [kind |-> "none"]
                /\ state' = zero
    /\ step_no' = 0
    /\ cell_op' = "zero_state"
    /\ featr_runs' = 0
    /\ UNCHANGED <<high_lvl_features, high_lvl_feature_dim, psi, nets,
                   argmax_tie, trace>>

\* AttendAndSpellCell.__call__ up to the attributes it leaves alone: the
\* state argument is the state of the unrolling, or a hand-built tuple as
\* long as there is none
CallBody ==
    /\ step_no < MaxUnroll
    /\ state.kind = "state" \/ psi = None
    /\ cell_op' = "call"
    /\ IF psi = None
       THEN /\ cell_result' = Err("AttributeError")
            /\ UNCHANGED <<state, trace, step_no, nets>>
       ELSE \E groundtruth_char \in CellInputs, out \in NetOutputs,
               post_context_out \in (IF type_two THEN {1, 2} ELSE {0}) :
            \E rand_val \in (IF groundtruth_char = None THEN {0} ELSE RandVals) :
            LET pre_context_out == out.pre_context_out
                phi == out.phi
                logits == out.logits
                one_hot_char ==
                    IF groundtruth_char # None
                    THEN select_out_or_target(groundtruth_char.tensor,
                                              state.one_hot_char, rand_val)
                    ELSE state.one_hot_char
                rnn_input == <<one_hot_char, state.context_vector>>
                attended == attention_context(psi.tensor,
                                              high_lvl_features.tensor, phi)
                context_vector == attended.context_vector
                char_net_input ==
                    IF type_two THEN <<pre_context_out, post_context_out>>
                    ELSE <<pre_context_out, context_vector>>
                called == IF type_two
                          THEN <<"pre_context_rnn", "state_net",
                                 "post_context_rnn", "char_net">>
                          ELSE <<"pre_context_rnn", "state_net", "char_net">>
                decoded_char == greedy_decoding(logits, argmax_tie)
            IN  /\ nets' = RunNets(nets, called)
                /\ state' =
                      [kind |-> "state",
                       pre_context_states |-> <<pre_context_out>>,
                       post_context_states |->
                           IF type_two THEN <<post_context_out>>
                           ELSE state.post_context_states,
                       one_hot_char |-> decoded_char,
                       context_vector |-> context_vector]
                /\ trace' =
                      [kind |-> "step",
                       groundtruth_char |-> groundtruth_char,
                       rand_val |-> rand_val,
                       last_char_in |-> state.one_hot_char,
                       psi_read |-> psi,
                       rnn_input |-> rnn_input,
                       rnn_state_in |-> state.pre_context_states,
                       pre_context_out |-> pre_context_out,
                       state_net_input |-> pre_context_out,
                       alpha |-> attended.alpha,
                       char_net_input |-> char_net_input,
                       logits |-> logits,
                       decoded_char |-> decoded_char]
                /\ cell_result' = [kind |-> "ok", logits |-> logits]
                /\ step_no' = step_no + 1
    /\ UNCHANGED argmax_tie

\* a step that computes psi again
CallRecomputingPsi ==
    /\ CallBody
    /\ \E non_seq_psi \in PsiTensors :
          psi' = IF psi = None THEN None ELSE set_features_psi(non_seq_psi)
    /\ featr_runs' = IF psi = None THEN 0 ELSE 1
    /\ UNCHANGED <<high_lvl_features, high_lvl_feature_dim>>

\* AttendAndSpellCell.__call__
Call ==
    /\ CallBody
    /\ featr_runs' = 0
    /\ UNCHANGED <<high_lvl_features, high_lvl_feature_dim, psi>>

---------------------------------------------------------------------------
(* StateSpec: the state tuple of the cell and the dtype it reports.  An    *)
(* element of the tuple is an RNNStateList, the list of the dtypes of its  *)
(* LSTM states, or a tensor with a dtype.                                  *)

Dtypes == {"float32", "float64"}

StateList(dtypes) == [kind |-> "list", dtypes |-> dtypes]

TensorOf(dtype) == [kind |-> "tensor", dtype |-> dtype]

DtypeIs(dtype) == [kind |-> "ok", dtype |-> dtype]

\* RNNStateList.dtype
RNNStateList_dtype(dtypes) ==
    IF \E i \in 2..Len(dtypes) : dtypes[i - 1] # dtypes[i]
    THEN Err("TypeError")
    ELSE IF dtypes = <<>> THEN Err("IndexError")
    ELSE DtypeIs(dtypes[1])

\* self[i].dtype of an element of the state tuple
ElementDtype(element) ==
    IF element.kind = "list" THEN RNNStateList_dtype(element.dtypes)
    ELSE DtypeIs(element.dtype)

RECURSIVE StateToupleLoop(_, _)
\* StateTouple.dtype, the loop from i on (i is 1-based here): the first
\* error of reading or comparing self[i-1].dtype and self[i].dtype
StateToupleLoop(touple, i) ==
    IF i > Len(touple) THEN ElementDtype(touple[1])
    ELSE LET left == ElementDtype(touple[i - 1])
             right == ElementDtype(touple[i])
         IN  IF left.kind = "error" THEN left
             ELSE IF right.kind = "error" THEN right
             ELSE IF left.dtype # right.dtype THEN Err("TypeError")
             ELSE StateToupleLoop(touple, i + 1)

\* a dtype property that reports the first element's type unchecked
StateTouple_dtypeFirst(touple) == ElementDtype(touple[1])

\* StateTouple.dtype
StateTouple_dtype(touple) == StateToupleLoop(touple, 2)

\* StateTouple(pre_context_states, post_context_states, one_hot_char,
\* context_vector): the namedtuple constructor, which reads no dtype
StateTouple(pre_context_states, post_context_states, one_hot_char, context_vector) ==
    [kind |-> "ok",
     touple |-> <<pre_context_states, post_context_states, one_hot_char,
                  context_vector>>]

\* the recurrent states of up to MaxLayers LSTM layers
DtypeLists == UNION {[1..n -> Dtypes] : n \in 1..MaxLayers}

StateIdle ==
    /\ st_elements = <<>>
    /\ st_pc = "idle"
    /\ st_made = Err("unset")
    /\ st_dtype = Err("unset")

StateInit ==
    /\ st_elements \in
          {<<StateList(pre), StateList(post), TensorOf(char), TensorOf(context)>> :
              pre \in DtypeLists, post \in DtypeLists,
              char \in Dtypes, context \in Dtypes}
    /\ st_pc = "new"
    /\ st_made = Err("unset")
    /\ st_dtype = Err("unset")

\* StateTouple(...) as in zero_state and at the end of __call__
ConstructState ==
    /\ st_pc = "new"
    /\ st_made' = StateTouple(st_elements[1], st_elements[2], st_elements[3],
                              st_elements[4])
    /\ st_pc' = "constructed"
    /\ UNCHANGED <<st_elements, st_dtype>>

\* state.dtype, as the unrolling functions of tensorflow read it
ReadDtype ==
    /\ st_pc = "constructed"
    /\ st_made.kind = "ok"
    /\ st_dtype' = StateTouple_dtype(st_made.touple)
    /\ st_pc' = "read"
    /\ UNCHANGED <<st_elements, st_made>>

---------------------------------------------------------------------------
(* CursorSpec: the dispenser of Spec, with a record of the last operation  *)
(* and of the reader's cursor before it                                    *)

CursorIdle ==
    /\ last_op = "idle"
    /\ op_pos = 0

CursorInit ==
    /\ last_op = "none"
    /\ op_pos = 0

LoggedGetBatch ==
    /\ GetBatch
    /\ last_op' = "get_batch"
    /\ op_pos' = scp_position

LoggedSkipBatch ==
    /\ SkipBatch
    /\ last_op' = "skip_batch"
    /\ op_pos' = scp_position

LoggedReturnBatch ==
    /\ ReturnBatch
    /\ last_op' = "return_batch"
    /\ op_pos' = scp_position

---------------------------------------------------------------------------
(* The specifications *)

Init == DispInit /\ NormIdle /\ ConvIdle /\ PhonIdle /\ CellIdle /\ StateIdle /\ CursorIdle

Next ==
    \/ GetBatch /\ UNCHANGED <<normVars, convVars, phonVars, cellVars, stateVars, cursorVars>>
    \/ SkipBatch /\ UNCHANGED <<normVars, convVars, phonVars, cellVars, stateVars, cursorVars>>
    \/ ReturnBatch /\ UNCHANGED <<normVars, convVars, phonVars, cellVars, stateVars, cursorVars>>

Spec == Init /\ [][Next]_vars

NormSpecInit == DispIdle /\ NormInit /\ ConvIdle /\ PhonIdle /\ CellIdle /\ StateIdle /\ CursorIdle

NormNext ==
    \/ NormalizeTargets /\ UNCHANGED <<dispVars, convVars, phonVars, cellVars, stateVars, cursorVars>>
    \/ Encode /\ UNCHANGED <<dispVars, convVars, phonVars, cellVars, stateVars, cursorVars>>
    \/ Decode /\ UNCHANGED <<dispVars, convVars, phonVars, cellVars, stateVars, cursorVars>>

NormSpec == NormSpecInit /\ [][NormNext]_vars

ConvSpecInit == DispIdle /\ NormIdle /\ ConvInit /\ PhonIdle /\ CellIdle /\ StateIdle /\ CursorIdle

ConvNext ==
    \/ DenseToSparse /\ UNCHANGED <<dispVars, normVars, phonVars, cellVars, stateVars, cursorVars>>
    \/ SparseToDense /\ UNCHANGED <<dispVars, normVars, phonVars, cellVars, stateVars, cursorVars>>
    \/ TargetListToSparseTensor /\ UNCHANGED <<dispVars, normVars, phonVars, cellVars, stateVars, cursorVars>>

ConvSpec == ConvSpecInit /\ [][ConvNext]_vars

PhonSpecInit == DispIdle /\ NormIdle /\ ConvIdle /\ PhonInit /\ CellIdle /\ StateIdle /\ CursorIdle

PhonNext ==
    \/ PhonConstruct /\ UNCHANGED <<dispVars, normVars, convVars, cellVars, stateVars, cursorVars>>
    \/ PhonEncode /\ UNCHANGED <<dispVars, normVars, convVars, cellVars, stateVars, cursorVars>>

PhonSpec == PhonSpecInit /\ [][PhonNext]_vars

CellSpecInit == DispIdle /\ NormIdle /\ ConvIdle /\ PhonIdle /\ CellInit /\ StateIdle /\ CursorIdle

CellNext ==
    \/ SetFeatures /\ UNCHANGED <<dispVars, normVars, convVars, phonVars, stateVars, cursorVars>>
    \/ ZeroState /\ UNCHANGED <<dispVars, normVars, convVars, phonVars, stateVars, cursorVars>>
    \/ Call /\ UNCHANGED <<dispVars, normVars, convVars, phonVars, stateVars, cursorVars>>

CellSpec == CellSpecInit /\ [][CellNext]_vars

StateSpecInit ==
    DispIdle /\ NormIdle /\ ConvIdle /\ PhonIdle /\ CellIdle /\ StateInit /\ CursorIdle

StateNext ==
    \/ ConstructState
          /\ UNCHANGED <<dispVars, normVars, convVars, phonVars, cellVars, cursorVars>>
    \/ ReadDtype
          /\ UNCHANGED <<dispVars, normVars, convVars, phonVars, cellVars, cursorVars>>

StateSpec == StateSpecInit /\ [][StateNext]_vars

CursorSpecInit ==
    DispInit /\ NormIdle /\ ConvIdle /\ PhonIdle /\ CellIdle /\ StateIdle
        /\ CursorInit

CursorNext ==
    \/ LoggedGetBatch
          /\ UNCHANGED <<normVars, convVars, phonVars, cellVars, stateVars>>
    \/ LoggedSkipBatch
          /\ UNCHANGED <<normVars, convVars, phonVars, cellVars, stateVars>>
    \/ LoggedReturnBatch
          /\ UNCHANGED <<normVars, convVars, phonVars, cellVars, stateVars>>

CursorSpec == CursorSpecInit /\ [][CursorNext]_vars

---------------------------------------------------------------------------
(* Properties of the batch assembly (Spec) *)

\* the number (1-based) of the i-th utterance the last get_batch call read
ReadUtt(i) == ((call_pos + i - 1) % NumUtts) + 1

\* the frame counts of the utterances the last get_batch call read
ReadLens == [i \in 1..size |-> UttLens[ReadUtt(i)]]

\* the encoded transcription of the i-th utterance the last call read
ReadCodes(i) == encode(text_dict[utt_ids[ReadUtt(i)]]).val

\* whether column b of a [time x batch x width] tensor is well formed
ColumnShaped(tensor, b) ==
    /\ DOMAIN tensor.data = 1..tensor.shape[1]
    /\ \A t \in DOMAIN tensor.data :
          /\ DOMAIN tensor.data[t] = 1..tensor.shape[2]
          /\ DOMAIN tensor.data[t][b] = 1..tensor.shape[3]

\* C1: every batch data_lists_to_batch returns has inputs of shape
\* (max_steps, size, num_features), max_steps being the cap when one is
\* set and the longest utterance of the batch otherwise; column b holds
\* the frames of utterance b below its true length, which is
\* sequence_lengths[b], and zeros from there on.
C1_InputsPaddedToMaxSteps ==
    result.kind = "ok" =>
        LET inputs    == result.val.inputs
            max_steps == IF max_time = <<>> THEN MaxOver(0, ReadLens)
                         ELSE max_time[1]
        IN  /\ inputs.shape = <<max_steps, size, NumFeatures>>
            /\ DOMAIN result.val.seq_lengths = 1..size
            /\ \A b \in 1..size :
                  /\ ColumnShaped(inputs, b)
                  /\ result.val.seq_lengths[b] = ReadLens[b]
                  /\ ReadLens[b] <= max_steps
                  /\ \A t \in 1..max_steps : \A f \in 1..NumFeatures :
                        inputs.data[t][b][f] =
                            IF t <= ReadLens[b] THEN Frame(ReadUtt(b), t, f)
                            ELSE 0

\* C1 witness: an uncapped batch of two utterances, one of them shorter
\* than the other and padded behind its own frames
C1_Witness ==
    /\ result.kind = "ok"
    /\ max_time = <<>>
    /\ size = 2
    /\ \E b \in 1..size :
          /\ ReadLens[b] > 0
          /\ ReadLens[b] < result.val.inputs.shape[1]
          /\ result.val.inputs.data[ReadLens[b]][b][1] # 0
          /\ result.val.inputs.data[ReadLens[b] + 1][b][1] = 0

\* the (position, code) pairs a sparse target triple lists for row i
SparseRow(tgt, i) ==
    {<<tgt.indices[k][2], tgt.values[k]>> :
        k \in {k \in DOMAIN tgt.indices : tgt.indices[k][1] = i - 1}}

\* the codes a one-hot target tensor holds in column i
OneHotColumn(tgt, i) ==
    [t \in 1..tgt.shape[1] |-> {l - 1 : l \in {l \in 1..tgt.shape[3] :
                                                tgt.data[t][i][l] = 1}}]

\* C2: every batch get_batch returns holds exactly `size` utterances, in
\* the order the reader gave them: column i holds the i-th utterance read
\* and the encoding of its own transcription; and a call that reads an
\* utterance without a transcription raises a KeyError and returns nothing.
C2_BatchInReaderOrder ==
    /\ result.kind = "ok" =>
          /\ result.val.inputs.shape[2] = size
          /\ Len(result.val.seq_lengths) = size
          /\ \A i \in 1..size :
                /\ utt_ids[ReadUtt(i)] \in DOMAIN text_dict
                /\ result.val.seq_lengths[i] = ReadLens[i]
                /\ \A t \in 1..ReadLens[i] : \A f \in 1..NumFeatures :
                      /\ t <= result.val.inputs.shape[1]
                      /\ result.val.inputs.data[t][i][f]
                             = Frame(ReadUtt(i), t, f)
                /\ IF one_hot_encoding
                   THEN \A t \in 1..result.val.targets.shape[1] :
                           OneHotColumn(result.val.targets, i)[t] =
                              IF t <= Len(ReadCodes(i))
                              THEN {ReadCodes(i)[t]} ELSE {}
                   ELSE SparseRow(result.val.targets, i) =
                           {<<k - 1, ReadCodes(i)[k]>> :
                               k \in {k \in DOMAIN ReadCodes(i) :
                                         ReadCodes(i)[k] # 0}}
    /\ (/\ result.kind # "none"
        /\ \E i \in 1..size : utt_ids[ReadUtt(i)] \notin DOMAIN text_dict)
          => result = Err("KeyError")

\* C2 witness: a batch of two read across the end of the archive (the
\* last utterance, then the first), both with their transcriptions
C2_Witness ==
    /\ result.kind = "ok"
    /\ size = 2
    /\ ReadUtt(1) = NumUtts
    /\ ReadUtt(2) = 1
    /\ result.val.seq_lengths = <<UttLens[NumUtts], UttLens[1]>>

\* C10: in one-hot mode the target tensor has shape [max_label_length,
\* size, num_labels]; below the length of sequence b the slice [t, b, :]
\* has exactly one 1, at the code of position t, and from that length on
\* it is all zero.
C10_OneHotTargets ==
    (result.kind = "ok" /\ one_hot_encoding) =>
        LET tgt == result.val.targets
            max_label_length ==
                MaxOver(0, [i \in 1..size |-> Len(ReadCodes(i))])
        IN  /\ tgt.shape = <<max_label_length, size, num_labels>>
            /\ \A b \in 1..size :
                  /\ ColumnShaped(tgt, b)
                  /\ \A t \in 1..max_label_length :
                        \A l \in 1..num_labels :
                           tgt.data[t][b][l] =
                              IF t <= Len(ReadCodes(b))
                                 /\ ReadCodes(b)[t] = l - 1
                              THEN 1 ELSE 0
                  /\ \A t \in 1..Len(ReadCodes(b)) :
                        ReadCodes(b)[t] < num_labels

\* C10 witness: a one-hot batch of two transcriptions of different
\* lengths, the shorter one followed by all-zero slices
C10_Witness ==
    /\ result.kind = "ok"
    /\ one_hot_encoding
    /\ size = 2
    /\ num_labels = target_label_no
    /\ Len(ReadCodes(1)) < Len(ReadCodes(2))
    /\ OneHotColumn(result.val.targets, 1)[Len(ReadCodes(2))] = {}
    /\ OneHotColumn(result.val.targets, 2)[1] = {code_dict["<"]}

---------------------------------------------------------------------------
(* Properties of the character encoder (NormSpec) *)

Normalized == npc \in {"normalized", "encoded", "decoded"}

\* how often character c occurs in a sequence of characters
Count(c, chars) == Cardinality({i \in DOMAIN chars : chars[i] = c})

\* how often word w occurs in a word list
CountWord(w, ws) == Cardinality({i \in DOMAIN ws : ws[i] = w})

\* C4: every character of normalize_targets(w) is an allowed character,
\* so encode raises no KeyError on it, and decoding the codes gives the
\* normalized characters back.
C4_EncodeDecodeRoundTrip ==
    /\ Normalized =>
          \A i \in DOMAIN norm_lst : norm_lst[i] \in Range(allowed_chrs)
    /\ npc \in {"encoded", "decoded"} =>
          /\ encoded.kind = "ok"
          /\ Len(encoded.val) = Len(norm_lst)
    /\ npc = "decoded" => decoded = Ok(norm_lst)

\* C4 witness: a word list with characters outside the allowed set,
\* normalized, encoded and decoded back
C4_Witness ==
    /\ npc = "decoded"
    /\ \E i \in DOMAIN norm_input : norm_input[i] = <<"4", "-">>
    /\ \E i \in DOMAIN norm_input : norm_input[i] = <<"T", "H", "E">>
    /\ decoded.kind = "ok"
    /\ "?" \in Range(decoded.val)
    /\ "t" \in Range(decoded.val)

\* the allowed characters as documented: seven marks and a..z inclusive
DocumentedChrs == {">", "<", " ", ",", ".", "'", "?"} \cup Range(Letters)

\* C5: the code map is a bijection between the seven marks united with
\* every letter a..z and the codes 0..n-1, '>' being 0 and '<' being 1,
\* and normalization keeps every lower-case letter (none becomes '?').
C5_CodeMapCoversAlphabet ==
    Normalized =>
        /\ DOMAIN code_dict = DocumentedChrs
        /\ {code_dict[c] : c \in DOMAIN code_dict}
              = 0..(Cardinality(DocumentedChrs) - 1)
        /\ \A c, d \in DOMAIN code_dict : code_dict[c] = code_dict[d] => c = d
        /\ code_dict[">"] = 0
        /\ code_dict["<"] = 1
        /\ LET chars == Flatten(tmp_lst(norm_input))
           IN  \A k \in DOMAIN chars :
                  lower(chars[k]) \in Range(Letters)
                      => norm_lst[k] = lower(chars[k])

\* C6: the normalized list starts with '<' and ends with '>' at two
\* distinct positions, for every word list (the empty one and those that
\* end in a marker word too), and every ,COMMA / .PERIOD word is there as
\* one ',' / '.' character.
C6_MarkersAndPunctuation ==
    Normalized =>
        /\ Len(norm_lst) >= 2
        /\ norm_lst[1] = "<"
        /\ norm_lst[Len(norm_lst)] = ">"
        /\ Count(",", norm_lst) = CountWord(COMMA, norm_input)
        /\ Count(".", norm_lst) = CountWord(PERIOD, norm_input)

\* C7: ["THE", ",COMMA", "CAT"] is normalized to < t h e , space c a t >
C7_TheCommaCat ==
    (Normalized /\ norm_input = << <<"T","H","E">>, COMMA, <<"C","A","T">> >>)
        => norm_lst = <<"<", "t", "h", "e", ",", " ", "c", "a", "t", ">">>

---------------------------------------------------------------------------
(* Properties of the static conversions (ConvSpec) *)

\* the nonzero cells of a dense matrix as (0-based index, value) pairs
NonZeroCells(m) ==
    {<< <<r - 1, c - 1>>, m.data[r][c] >> :
        <<r, c>> \in {rc \in (1..m.shape[1]) \X (1..m.shape[2]) :
                         m.data[rc[1]][rc[2]] # 0}}

\* C3: for a dense matrix M without negative values, dense_to_sparse
\* lists exactly the nonzero positions of M with their values and M's
\* shape, and sparse_to_dense of that triple is M again.
C3_DenseSparseRoundTrip ==
    /\ conv_pc \in {"sparse", "dense"} =>
          /\ sparse.val.shape = conv_arg.dense_matrix.shape
          /\ Len(sparse.val.values) = Len(sparse.val.indices)
          /\ {<<sparse.val.indices[k], sparse.val.values[k]>> :
                 k \in DOMAIN sparse.val.indices} = NonZeroCells(conv_arg.dense_matrix)
          /\ Len(sparse.val.indices) = Cardinality(NonZeroCells(conv_arg.dense_matrix))
    /\ conv_pc = "dense" => dense = Ok(conv_arg.dense_matrix)

\* C3 witness: a 2 x 2 matrix with a nonzero cell above the diagonal and
\* a zero cell below it, converted forth and back
C3_Witness ==
    /\ conv_pc = "dense"
    /\ conv_arg.dense_matrix.shape = <<2, 2>>
    /\ conv_arg.dense_matrix.data[1][2] # 0
    /\ conv_arg.dense_matrix.data[2][1] = 0
    /\ dense.kind = "ok"
    /\ dense.val.data[1][2] = conv_arg.dense_matrix.data[1][2]

\* row-major order of two 0-based index pairs
RowMajorBefore(p, q) == p[1] < q[1] \/ (p[1] = q[1] /\ p[2] < q[2])

\* C8: for any list of target sequences the call returns the positions
\* [t_i, seq_i] of the nonzero codes in row-major order, their codes in
\* the same order, and the shape [number of sequences, longest length].
C8_SparseTensorOfTargets ==
    conv_pc = "sparse_targets" =>
        /\ sparse.kind = "ok"
        /\ LET targets == conv_arg.target_list
               idx     == sparse.val.indices
           IN  /\ {idx[k] : k \in DOMAIN idx} =
                     {<<t - 1, k - 1>> :
                         <<t, k>> \in {tk \in (DOMAIN targets) \X
                                 (1..MaxOver(0, [t \in DOMAIN targets |->
                                                   Len(targets[t])])) :
                             /\ tk[2] \in DOMAIN targets[tk[1]]
                             /\ targets[tk[1]][tk[2]] # 0}}
               /\ \A i, j \in DOMAIN idx :
                     i < j => RowMajorBefore(idx[i], idx[j])
               /\ DOMAIN sparse.val.values = DOMAIN idx
               /\ \A k \in DOMAIN idx :
                     sparse.val.values[k]
                         = targets[idx[k][1] + 1][idx[k][2] + 1]
               /\ sparse.val.shape =
                     <<Len(targets),
                       MaxOver(0, [t \in DOMAIN targets |-> Len(targets[t])])>>

\* C9: when every target sequence is empty (or there is none) the call
\* does not fail: no indices, no values, and a shape.
C9_EmptyTargetsGuarded ==
    (/\ conv_pc = "sparse_targets"
     /\ \A t \in DOMAIN conv_arg.target_list : conv_arg.target_list[t] = <<>>)
        => /\ sparse.kind = "ok"
           /\ sparse.val.indices = <<>>
           /\ sparse.val.values = <<>>
           /\ sparse.val.shape[1] = Len(conv_arg.target_list)

---------------------------------------------------------------------------
(* Properties of the phoneme dispenser (PhonSpec) *)

\* the distinct tokens observed in the transcript file
ObservedTokens ==
    UNION {Range(Tail(ph_text_lines[i])) : i \in DOMAIN ph_text_lines}

\* C11: the phone map of a constructed phoneme dispenser is a bijection
\* between the distinct tokens of the transcript file and 0..n-1 that
\* follows the sorted order of the tokens, encode returns the codes of the
\* map, and the construction fails with AssertionError exactly when the
\* declared num_labels differs from n.
C11_PhoneMapSortedBijection ==
    LET n == Cardinality(ObservedTokens)
    IN  /\ ph_pc = "failed" =>
              ph_num_labels # n /\ ph_result = Err("AssertionError")
        /\ ph_pc \in {"built", "encoded"} =>
              /\ ph_num_labels = n
              /\ DOMAIN phone_map = ObservedTokens
              /\ {phone_map[p] : p \in DOMAIN phone_map} = 0..(n - 1)
              /\ \A p, q \in DOMAIN phone_map :
                    PhoneRank(p) < PhoneRank(q) <=> phone_map[p] < phone_map[q]
        /\ ph_pc = "encoded" /\ Range(ph_arg) \subseteq ObservedTokens =>
              /\ ph_result.kind = "ok"
              /\ Len(ph_result.val) = Len(ph_arg)
              /\ \A i \in DOMAIN ph_arg : ph_result.val[i] = phone_map[ph_arg[i]]

\* a file whose first token sorts last: its transcript "sil aa" encodes to 2 0
C11_Witness ==
    /\ ph_pc = "encoded"
    /\ ph_num_labels = 3
    /\ ph_arg = <<"sil", "aa">>
    /\ ph_text_lines[1] = <<"utt", "sil", "aa">>
    /\ ph_result = Ok(<<2, 0>>)

---------------------------------------------------------------------------
(* Properties of the attend and spell cell (CellSpec) *)

\* a step has run to its end in the transition
StepTaken == step_no' = step_no + 1

\* the last operation was a step that returned logits and a state
StepReturned == cell_op = "call" /\ cell_result.kind = "ok"

\* C12: a step invoked before the first set_features raises
\* AttributeError and leaves neither logits nor a state behind; once
\* set_features has been called a step does not fail on this check.
C12_FeaturesMustBeSet ==
    cell_op = "call" =>
        IF nets["featr_net"].calls = 0
        THEN /\ cell_result = Err("AttributeError")
             /\ state.kind = "none"
             /\ trace = NoTrace
        ELSE cell_result.kind = "ok"

\* a step was tried on a cell without features
C12_Witness ==
    /\ cell_op = "call"
    /\ nets["featr_net"].calls = 0
    /\ cell_result = Err("AttributeError")

C16_AttentionIsWeightedMean ==
    StepReturned =>
        \A b \in Batch :
            LET weights == trace.alpha.num[b]
                total == trace.alpha.den[b]
                listened == high_lvl_features.tensor[b]
                context == state.context_vector
            IN  /\ DOMAIN weights = 1..TimeSteps
                /\ \A t \in DOMAIN weights : weights[t] >= 0
                /\ total > 0
                /\ SumTo(weights, TimeSteps) = total
                /\ context.den[b] = total
                /\ DOMAIN context.num[b] = 1..high_lvl_feature_dim[1]
                /\ \A d \in DOMAIN context.num[b] :
                      context.num[b][d] =
                          SumTo([t \in 1..TimeSteps |->
                                    weights[t] * listened[t][d]], TimeSteps)

\* weights 2/6 and 4/6 on the two time steps of the first batch element,
\* over features of width 2
C16_Witness ==
    /\ StepReturned
    /\ high_lvl_feature_dim = <<2>>
    /\ trace.alpha.num[1] = <<2, 4>>
    /\ trace.alpha.den[1] = 6

\* C17: the first step after zero_state receives the one-hot of code 1 and
\* an all-zero context of the width of the features; every step feeds the
\* pre-context recurrence the context vector and the recurrent state of
\* the incoming state, runs the attention on the output of that
\* recurrence, and hands the newly computed context vector to char_net.
C17_UnrolledDataFlow ==
    /\ [](StepReturned /\ step_no = 1 =>
            \A b \in Batch :
                /\ trace.last_char_in[b] =
                      [k \in 1..las_target_label_no |-> IF k = 2 THEN 1 ELSE 0]
                /\ trace.rnn_input[2].num[b] =
                      [d \in 1..high_lvl_feature_dim[1] |-> 0])
    /\ [][StepTaken =>
            /\ trace'.last_char_in = state.one_hot_char
            /\ trace'.rnn_input[2] = state.context_vector
            /\ trace'.rnn_state_in = state.pre_context_states
            /\ trace'.state_net_input = trace'.pre_context_out
            /\ state'.pre_context_states = <<trace'.pre_context_out>>
            /\ trace'.char_net_input =
                  <<trace'.pre_context_out, state'.context_vector>>]_vars

\* a second step: it was fed the recurrent state 2 and a context vector
\* other than the one it computed
C17_Witness ==
    /\ StepReturned
    /\ step_no = 2
    /\ trace.rnn_state_in = <<2>>
    /\ trace.rnn_input[2] # state.context_vector
    /\ trace.char_net_input[2] = state.context_vector

\* C18: psi, the stored features and the feature dimension change in
\* set_features only, which runs featr_net once; a step reads the psi that
\* is stored and leaves it in place, and a step that directly follows a
\* step reads the same psi.
C18_PsiComputedBySetFeaturesOnly ==
    /\ [](cell_op = "set_features" => featr_runs = 1)
    /\ [][(\/ psi' # psi
           \/ high_lvl_features' # high_lvl_features
           \/ high_lvl_feature_dim' # high_lvl_feature_dim
           \/ featr_runs' # 0)
            => cell_op' = "set_features" /\ featr_runs' = 1]_vars
    /\ [][StepTaken =>
            /\ trace'.psi_read = psi
            /\ psi' = psi
            /\ (StepReturned => trace'.psi_read = trace.psi_read)]_vars

\* the second step of an unrolling, on a cell whose features were set twice
C18_Witness ==
    /\ StepReturned
    /\ step_no = 2
    /\ nets["featr_net"].calls = 2
    /\ trace.psi_read = psi

\* C19: a sub-network that was never invoked has its reuse flag unset and
\* no parameters; its first invocation runs with the flag unset, creates
\* the parameters and sets the flag; every later invocation runs in reuse
\* mode and creates nothing; a set flag stays set.
C19_ParametersCreatedOnce ==
    /\ [](\A net \in Nets :
            LET n == nets[net]
            IN  /\ n.calls = 0 =>
                      n.reuse = "None" /\ n.created = 0 /\ n.ran_with = "never"
                /\ n.calls = 1 =>
                      n.reuse = "True" /\ n.created = 1 /\ n.ran_with = "None"
                /\ n.calls = 2 =>
                      n.reuse = "True" /\ n.created = 1 /\ n.ran_with = "True")
    /\ [][\A net \in Nets :
            nets[net].reuse = "True" => nets'[net].reuse = "True"]_vars

\* every sub-network of the default cell was invoked at least twice
C19_Witness ==
    \A net \in Nets \ {"post_context_rnn"} :
        nets[net].calls = 2 /\ nets[net].ran_with = "True"

---------------------------------------------------------------------------
(* Properties of the state tuple (StateSpec) *)

\* the element types of the four sub-states
ElementTypes ==
    Range(st_elements[1].dtypes) \cup Range(st_elements[2].dtypes)
        \cup {st_elements[3].dtype, st_elements[4].dtype}

\* C15, as claimed: a state tuple whose sub-states do not share one
\* element type is rejected with an error both when it is constructed and
\* when its dtype is read; a uniform one reports its type.
C15_MixedStateRejectedTwice ==
    /\ st_pc \in {"constructed", "read"} /\ Cardinality(ElementTypes) > 1 =>
          st_made.kind = "error"
    /\ st_pc = "read" =>
          st_dtype = IF Cardinality(ElementTypes) > 1 THEN Err("TypeError")
                     ELSE DtypeIs(CHOOSE dtype \in ElementTypes : TRUE)

\* C15, amended: constructing a state tuple never fails, whatever the
\* types of its sub-states; reading the dtype of a tuple whose sub-states
\* do not share one element type raises TypeError, and reading the dtype
\* of a uniform one returns that type.
C15_MixedStateRejectedOnRead ==
    /\ st_pc \in {"constructed", "read"} =>
          st_made.kind = "ok" /\ st_made.touple = st_elements
    /\ st_pc = "read" =>
          st_dtype = IF Cardinality(ElementTypes) > 1 THEN Err("TypeError")
                     ELSE DtypeIs(CHOOSE dtype \in ElementTypes : TRUE)

\* a tuple whose one_hot_char alone is float32 was constructed, and the
\* dtype read raised
C15_Witness ==
    /\ st_pc = "read"
    /\ st_elements[3].dtype = "float32"
    /\ st_elements[4].dtype = "float64"
    /\ Range(st_elements[1].dtypes) = {"float64"}
    /\ st_made.kind = "ok"
    /\ st_dtype = Err("TypeError")

---------------------------------------------------------------------------
(* Properties of the reader's cursor (CursorSpec) *)

\* get_batch read its size utterances and returned a batch
BatchReturned == last_op = "get_batch" /\ result.kind # "error"

\* C20: skip_batch leaves the cursor size utterances after where it was and
\* return_batch size utterances before (the reader loops over NumUtts
\* utterances); a return_batch right after a skip_batch or after a get_batch
\* that returned a batch puts the cursor back where that operation
\* started; skip_batch and return_batch leave size, num_labels and
\* text_dict alone.
C20_SkipAndReturnAreInverse ==
    /\ [](/\ last_op = "skip_batch" =>
                scp_position = (op_pos + size) % NumUtts
          /\ last_op = "return_batch" =>
                scp_position = (op_pos + size * NumUtts - size) % NumUtts)
    /\ [][(last_op = "skip_batch" \/ BatchReturned)
              /\ last_op' = "return_batch" => scp_position' = op_pos]_vars
    /\ [][last_op' \in {"skip_batch", "return_batch"} =>
              /\ size' = size
              /\ num_labels' = num_labels
              /\ text_dict' = text_dict]_vars

\* batches of one utterance: a return_batch from cursor 2 back to cursor 1
C20_Witness ==
    /\ last_op = "return_batch"
    /\ size = 1
    /\ op_pos = 2
    /\ scp_position = 1

====
